---- MODULE Spec2Model ----
(***************************************************************************)
(* Listing acquisition pipeline of src/src/homes/rentcast_homes.py:        *)
(* per-station queries, per-postal-code merge, the worker pool of main(),  *)
(* the per-run cache directory, global deduplication and the eligibility   *)
(* filter.                                                                 *)
(***************************************************************************)
EXTENDS Integers, Sequences, FiniteSets, TLC

(***************************************************************************)
(* JSON values as Python sees them after json.load / response.json().      *)
(* Every value has the same shape so that values of different Python types *)
(* can be compared: t is the type, s the text of a str (or the repr of a   *)
(* list), n the integer part of a number.  "half" is the float n + 0.5.    *)
(* "absent" marks a key that is not in the dict.                           *)
(***************************************************************************)
JAbsent == [t |-> "absent", s |-> "", n |-> 0]
JNull == [t |-> "null", s |-> "", n |-> 0]
JStr(x) == [t |-> "str", s |-> x, n |-> 0]
JInt(k) == [t |-> "int", s |-> "", n |-> k]
JHalf(k) == [t |-> "half", s |-> "", n |-> k]
JList(repr) == [t |-> "list", s |-> repr, n |-> 0]

\* dict.get(key): None when the key is absent
Get(home, key) == IF home[key].t = "absent" THEN JNull ELSE home[key]

\* dict.get(key, default)
GetD(home, key, default) == IF home[key].t = "absent" THEN default ELSE home[key]

\* Python truth value of a JSON value (bool(v))
Truthy(v) ==
  CASE v.t = "str" -> v.s # ""
    [] v.t = "int" -> v.n # 0
    [] v.t = "half" -> TRUE
    [] v.t = "list" -> TRUE
    [] OTHER -> FALSE

\* hash(v) succeeds: a list is unhashable (TypeError in a set lookup)
Hashable(v) == v.t # "list"

Digit == <<"0", "1", "2", "3", "4", "5", "6", "7", "8", "9">>

RECURSIVE IntToStr(_)
IntToStr(k) ==
  IF k < 10 THEN Digit[k + 1] ELSE IntToStr(k \div 10) \o Digit[(k % 10) + 1]

\* str(v), which is also what an f-string writes for v
PyStr(v) ==
  CASE v.t = "str" -> v.s
    [] v.t = "int" -> IntToStr(v.n)
    [] v.t = "half" -> IntToStr(v.n) \o ".5"
    [] v.t = "list" -> v.s
    [] OTHER -> "None"

\* Faulty variant of FallbackId: the address alone.
FallbackIdAddressOnly(home) ==
  PyStr(GetD(home, "formattedAddress", JStr(""))) \o "|"

\* fallback_id = f"{address}|{price}"
FallbackId(home) ==
  PyStr(GetD(home, "formattedAddress", JStr(""))) \o "|" \o PyStr(GetD(home, "price", JInt(0)))

\* A ListingRecord, restricted to the fields the pipeline inspects.
Listing(id, address, price, ptype, bath, bed) ==
  [id |-> id, formattedAddress |-> address, price |-> price,
   propertyType |-> ptype, bathrooms |-> bath, bedrooms |-> bed]

(***************************************************************************)
(* ListingFetcher.  A response of the listings API is one of               *)
(*   timeout    requests raises Timeout / ConnectionError                  *)
(*   http_error raise_for_status() raises HTTPError                        *)
(*   bad_json   the body is not JSON: response.json() raises; reqexc tells *)
(*              whether the installed requests raises a RequestException   *)
(*              subclass (2.27 and later) or a plain ValueError (earlier)  *)
(*   json       the body parses; body is a list of listings, null or an    *)
(*              object (an error document)                                 *)
(***************************************************************************)
RespTimeout == [kind |-> "timeout", reqexc |-> TRUE, bt |-> "none", items |-> <<>>]
RespHttpError == [kind |-> "http_error", reqexc |-> TRUE, bt |-> "none", items |-> <<>>]
RespBadJson(reqexc) == [kind |-> "bad_json", reqexc |-> reqexc, bt |-> "none", items |-> <<>>]
RespList(items) == [kind |-> "json", reqexc |-> TRUE, bt |-> "list", items |-> items]
RespNull == [kind |-> "json", reqexc |-> TRUE, bt |-> "null", items |-> <<>>]
RespDict == [kind |-> "json", reqexc |-> TRUE, bt |-> "dict", items |-> <<>>]
\* the source accepts the request and never answers it
RespSilent == [kind |-> "silent", reqexc |-> TRUE, bt |-> "none", items |-> <<>>]

Returned(bt, items) == [out |-> "return", bt |-> bt, items |-> items, exc |-> ""]
Raised(exc) == [out |-> "raise", bt |-> "none", items |-> <<>>, exc |-> exc]

\* fetch_rentcast_data: what the call hands back for one response.
fetch_rentcast_data(resp) ==
  CASE resp.kind \in {"timeout", "http_error"} -> Returned("list", <<>>)
    [] resp.kind = "bad_json" ->
         IF resp.reqexc THEN Returned("list", <<>>) ELSE Raised("ValueError")
    [] resp.kind = "json" /\ resp.bt = "null" -> Raised("TypeError")
    [] OTHER -> Returned(resp.bt, resp.items)

(***************************************************************************)
(* ZipBatchMerger.                                                         *)
(***************************************************************************)
Acc(all_data, seen_ids) == [all_data |-> all_data, seen_ids |-> seen_ids]

\* Faulty variant of MergeListings: the fallback identifier is never remembered.
RECURSIVE MergeListingsForgetFallback(_, _)
MergeListingsForgetFallback(data, acc) ==
  IF data = <<>> THEN acc
  ELSE LET listing == Head(data)
           listing_id == Get(listing, "id")
       IN IF Truthy(listing_id)
          THEN IF ~Hashable(listing_id) THEN acc
               ELSE IF listing_id \notin acc.seen_ids
                    THEN MergeListingsForgetFallback(Tail(data),
                           Acc(Append(acc.all_data, listing), acc.seen_ids \cup {listing_id}))
                    ELSE MergeListingsForgetFallback(Tail(data), acc)
          ELSE MergeListingsForgetFallback(Tail(data),
                 Acc(Append(acc.all_data, listing), acc.seen_ids))

\* The loop over one station's listings.  A listing whose id is unhashable
\* raises TypeError in the set lookup: the loop stops there and the enclosing
\* except keeps what was added so far.
RECURSIVE MergeListings(_, _)
MergeListings(data, acc) ==
  IF data = <<>> THEN acc
  ELSE LET listing == Head(data)
           listing_id == Get(listing, "id")
           fallback_id == JStr(FallbackId(listing))
       IN IF Truthy(listing_id)
          THEN IF ~Hashable(listing_id) THEN acc
               ELSE IF listing_id \notin acc.seen_ids
                    THEN MergeListings(Tail(data),
                           Acc(Append(acc.all_data, listing), acc.seen_ids \cup {listing_id}))
                    ELSE MergeListings(Tail(data), acc)
          ELSE IF fallback_id \notin acc.seen_ids
               THEN MergeListings(Tail(data),
                      Acc(Append(acc.all_data, listing), acc.seen_ids \cup {fallback_id}))
               ELSE MergeListings(Tail(data), acc)

\* One iteration of the loop over stations: the query and the merge of its
\* result.  An exception of the query, or of iterating a body that is no
\* list of dicts, is caught by the except of the loop body.
CombineStation(resp, acc) ==
  LET r == fetch_rentcast_data(resp)
  IN IF r.out = "return" /\ r.bt = "list" THEN MergeListings(r.items, acc) ELSE acc

RECURSIVE CombineStations(_, _)
CombineStations(resps, acc) ==
  IF resps = <<>> THEN acc
  ELSE CombineStations(Tail(resps), CombineStation(Head(resps), acc))

\* fetch_and_combine_data_for_zip, given the responses of the zip's stations
fetch_and_combine_data_for_zip(resps) == CombineStations(resps, Acc(<<>>, {})).all_data

(***************************************************************************)
(* GlobalDeduplicator.                                                     *)
(***************************************************************************)
Identifier(home) ==
  LET home_id == Get(home, "id")
  IN IF Truthy(home_id) THEN PyStr(home_id) ELSE FallbackId(home)

\* Faulty variant of DedupLoop: a repeated identifier is forgotten, so its
\* next occurrence counts as new.
RECURSIVE DedupLoopForgetful(_, _, _)
DedupLoopForgetful(homes, seen_homes, unique_homes) ==
  IF homes = <<>> THEN unique_homes
  ELSE LET identifier == Identifier(Head(homes))
       IN IF identifier \notin seen_homes
          THEN DedupLoopForgetful(Tail(homes), seen_homes \cup {identifier},
                                  Append(unique_homes, Head(homes)))
          ELSE DedupLoopForgetful(Tail(homes), seen_homes \ {identifier}, unique_homes)

RECURSIVE DedupLoop(_, _, _)
DedupLoop(homes, seen_homes, unique_homes) ==
  IF homes = <<>> THEN unique_homes
  ELSE LET identifier == Identifier(Head(homes))
       IN IF identifier \notin seen_homes
          THEN DedupLoop(Tail(homes), seen_homes \cup {identifier},
                         Append(unique_homes, Head(homes)))
          ELSE DedupLoop(Tail(homes), seen_homes, unique_homes)

deduplicate_homes(homes) == DedupLoop(homes, {}, <<>>)

\* the number deduplicate_homes prints as removed
duplicate_count(homes) == Len(homes) - Len(deduplicate_homes(homes))

(***************************************************************************)
(* EligibilityFilter.                                                      *)
(***************************************************************************)
max_price == 600000
min_bedrooms == 3
\* min_bathrooms = 1.5
min_bathrooms == JHalf(1)

IsNum(v) == v.t \in {"int", "half"}

\* twice the number, so that n + 0.5 compares as an integer
Twice(v) == IF v.t = "half" THEN 2 * v.n + 1 ELSE 2 * v.n

\* str.lower() on the property types of the model
Lower(s) ==
  CASE s = "Land" -> "land"
    [] s = "LAND" -> "land"
    [] s = "Single Family" -> "single family"
    [] s = "Condo" -> "condo"
    [] OTHER -> s

\* Faulty variant of Eligibility: bathrooms and bedrooms are treated alike, a
\* null count of either passes.
EligibilitySymmetric(home, maxp, minbath, minbed) ==
  LET price == GetD(home, "price", JInt(0))
      property_type == GetD(home, "propertyType", JStr(""))
      bathrooms == Get(home, "bathrooms")
      bedrooms == Get(home, "bedrooms")
  IN CASE ~IsNum(price) -> "raise"
       [] Twice(price) > Twice(maxp) -> "skip"
       [] property_type.t # "str" -> "raise"
       [] Lower(property_type.s) = "land" -> "skip"
       [] bathrooms.t # "null" /\ ~IsNum(bathrooms) -> "raise"
       [] bathrooms.t # "null" /\ Twice(bathrooms) < Twice(minbath) -> "skip"
       [] bedrooms.t # "null" /\ ~IsNum(bedrooms) -> "raise"
       [] bedrooms.t # "null" /\ Twice(bedrooms) < Twice(minbed) -> "skip"
       [] OTHER -> "keep"

\* Faulty variant of Eligibility: the comparisons are strict, a home exactly
\* on a threshold is skipped.
EligibilityStrict(home, maxp, minbath, minbed) ==
  LET price == GetD(home, "price", JInt(0))
      property_type == GetD(home, "propertyType", JStr(""))
      bathrooms == Get(home, "bathrooms")
      bedrooms == Get(home, "bedrooms")
  IN CASE ~IsNum(price) -> "raise"
       [] Twice(price) >= Twice(maxp) -> "skip"
       [] property_type.t # "str" -> "raise"
       [] Lower(property_type.s) = "land" -> "skip"
       [] bathrooms.t # "null" /\ ~IsNum(bathrooms) -> "raise"
       [] bathrooms.t # "null" /\ Twice(bathrooms) <= Twice(minbath) -> "skip"
       [] bedrooms.t = "null" -> "skip"
       [] ~IsNum(bedrooms) -> "raise"
       [] Twice(bedrooms) <= Twice(minbed) -> "skip"
       [] OTHER -> "keep"

\* The four checks on one home: "keep", "skip" (continue) or "raise"
\* (TypeError of a comparison with None or a str, AttributeError of
\* None.lower()).
Eligibility(home, maxp, minbath, minbed) ==
  LET price == GetD(home, "price", JInt(0))
      property_type == GetD(home, "propertyType", JStr(""))
      bathrooms == Get(home, "bathrooms")
      bedrooms == Get(home, "bedrooms")
  IN CASE ~IsNum(price) -> "raise"
       [] Twice(price) > Twice(maxp) -> "skip"
       [] property_type.t # "str" -> "raise"
       [] Lower(property_type.s) = "land" -> "skip"
       [] bathrooms.t # "null" /\ ~IsNum(bathrooms) -> "raise"
       [] bathrooms.t # "null" /\ Twice(bathrooms) < Twice(minbath) -> "skip"
       [] bedrooms.t = "null" -> "skip"
       [] ~IsNum(bedrooms) -> "raise"
       [] Twice(bedrooms) < Twice(minbed) -> "skip"
       [] OTHER -> "keep"

\* Faulty variant of FilterLoop: the loop ends at the first home that fails a
\* check (break where the code has continue).
RECURSIVE FilterLoopBreaks(_, _, _, _, _)
FilterLoopBreaks(homes, filtered, maxp, minbath, minbed) ==
  IF homes = <<>> THEN [out |-> "return", homes |-> filtered]
  ELSE LET e == Eligibility(Head(homes), maxp, minbath, minbed)
       IN CASE e = "raise" -> [out |-> "raise", homes |-> <<>>]
            [] e = "skip" -> [out |-> "return", homes |-> filtered]
            [] OTHER -> FilterLoopBreaks(Tail(homes), Append(filtered, Head(homes)),
                                         maxp, minbath, minbed)

RECURSIVE FilterLoop(_, _, _, _, _)
FilterLoop(homes, filtered, maxp, minbath, minbed) ==
  IF homes = <<>> THEN [out |-> "return", homes |-> filtered]
  ELSE LET e == Eligibility(Head(homes), maxp, minbath, minbed)
       IN CASE e = "raise" -> [out |-> "raise", homes |-> <<>>]
            [] e = "skip" -> FilterLoop(Tail(homes), filtered, maxp, minbath, minbed)
            [] OTHER -> FilterLoop(Tail(homes), Append(filtered, Head(homes)),
                                   maxp, minbath, minbed)

filter_homes_by_criteria(homes, maxp, minbath, minbed) ==
  FilterLoop(homes, <<>>, maxp, minbath, minbed)

(***************************************************************************)
(* The run: main() and its worker pool.                                    *)
(***************************************************************************)
VARIABLES
  stations_csv,   \* os.path.exists(stations_csv)
  api_key,        \* "RENTCAST_API_KEY" in os.environ
  zip_coords,     \* postal code -> its stations (get_zip_code_coordinates)
  listings_api,   \* postal code -> the response of each station's query
  disk_faulty,    \* whether writing a cache file can fail with OSError
  output_dir,     \* os.path.exists(output_dir)
  files,          \* postal code -> its cache file <zip>.json
  pc,             \* where main() is
  invocations,    \* invocations started so far for this date
  ended,          \* how the earlier invocations ended
  found_dir,      \* output_dir existed when this invocation started
  queue,          \* the pool's work queue (submitted, not yet started)
  wstate,         \* postal code -> its fetch_zip_data task
  queries,        \* outbound queries issued by this invocation
  queried,        \* postal code -> queries issued for it in this run
  all_homes, unique_homes, filtered_homes,
  stages,         \* downstream stages this invocation has performed
  dd,             \* the deduplication stages applied to a given input
  ef,             \* the eligibility filter applied to a given input
  si,             \* get_zip_code_coordinates applied to a given station table
  script,         \* web: what the script of an operation prints and returns
  current_operation,  \* web: execution_state['current_operation'] (0 is None)
  operation,      \* web: the Operation dict of each operation started
  process,        \* web: the subprocess of each operation
  output_thread,  \* web: where the _capture_output thread of each operation is
  request,        \* web: the handler of each POST /api/execute request
  stream          \* web: the event_stream generator of a stream client

worldvars == <<stations_csv, api_key, zip_coords, listings_api, disk_faulty>>
mainvars == <<output_dir, files, pc, invocations, ended, found_dir, queue, wstate,
              queries, queried, all_homes, unique_homes, filtered_homes, stages>>
purevars == <<dd, ef, si>>
webvars == <<script, current_operation, operation, process, output_thread,
             request, stream>>
vars == <<worldvars, mainvars, purevars, webvars>>

\* ThreadPoolExecutor(max_workers=6)
max_workers == 6

\* Invocations of main() for one date that the model follows.
MaxInvocations == 2
\* Postal codes of the world that saturates the pool.
PoolZips == 7

Zips == DOMAIN zip_coords

Terminal == {"exit0", "exit1", "done", "killed", "crashed"}

NoFile == [st |-> "none", data |-> <<>>]
\* A task: st its state, k the stations answered so far, inflight the stations
\* whose query is outstanding, all_data and seen_ids the locals of the merge.
NoTask == [st |-> "none", k |-> 0, inflight |-> {},
           all_data |-> <<>>, seen_ids |-> {}]

(***************************************************************************)
(* Listings and responses of the worlds the run is checked in.             *)
(***************************************************************************)
H1 == Listing(JStr("a"), JStr("1 Main St"), JInt(300000), JStr("Single Family"), JInt(2), JInt(3))
\* the listing "a" again, as another station reports it (price changed)
H1b == Listing(JStr("a"), JStr("1 Main St"), JInt(310000), JStr("Single Family"), JInt(2), JInt(3))
H2 == Listing(JAbsent, JStr("2 Elm St"), JInt(250000), JStr("Land"), JAbsent, JAbsent)
H3 == Listing(JInt(5), JStr("3 Oak Ave"), JInt(600001), JStr("Condo"), JHalf(1), JNull)
H4 == Listing(JStr("d"), JStr("4 Pine Rd"), JNull, JStr("Condo"), JInt(2), JInt(4))

Responses ==
  {RespList(<<H1, H2>>), RespList(<<H1b, H3>>), RespList(<<H4>>), RespList(<<>>),
   RespTimeout, RespHttpError, RespBadJson(TRUE), RespBadJson(FALSE), RespNull, RespDict}

\* Two postal codes, the first with two stations, any responses.
RichWorlds ==
  { [csv |-> TRUE, key |-> TRUE, faulty |-> TRUE,
     coords |-> (1 :> <<1, 2>>) @@ (2 :> <<1>>),
     api |-> (1 :> <<a, b>>) @@ (2 :> <<c>>)] : a \in Responses, b \in Responses, c \in Responses }

\* More postal codes than workers: the third has two stations, the others one.
PoolWorld ==
  [csv |-> TRUE, key |-> TRUE, faulty |-> FALSE,
   coords |-> [z \in 1..PoolZips |-> IF z = 3 THEN <<1, 2>> ELSE <<1>>],
   api |-> [z \in 1..PoolZips |->
              IF z = 3 THEN <<RespList(<<H1, H2>>), RespList(<<H3>>)>>
                       ELSE <<RespList(<<H1, H2>>)>>]]

\* The station table or the API key is missing.
BareWorlds ==
  { [csv |-> c, key |-> k, faulty |-> TRUE,
     coords |-> (1 :> <<1, 2>>) @@ (2 :> <<1>>),
     api |-> (1 :> <<RespList(<<H1, H2>>), RespTimeout>>) @@ (2 :> <<RespList(<<H1b, H3>>)>>)]
    : c \in BOOLEAN, k \in BOOLEAN } 

Worlds == RichWorlds \cup BareWorlds

\* Two postal codes; each query is answered, fails, or is never answered.
SilentWorlds ==
  { [csv |-> TRUE, key |-> TRUE, faulty |-> FALSE,
     coords |-> (1 :> <<1, 2>>) @@ (2 :> <<1>>),
     api |-> (1 :> <<a, b>>) @@ (2 :> <<c>>)]
    : a \in {RespList(<<H1, H2>>), RespTimeout, RespSilent},
      b \in {RespList(<<H1b>>), RespSilent},
      c \in {RespList(<<H2>>), RespHttpError, RespSilent} }

\* ---------------------------------------------------------------------
\* The web control surface (src/web/app.py, src/web/executor.py): values
\* ---------------------------------------------------------------------
\* None and a value that is not None
None == <<>>
Some(x) == <<x>>

MAX_OUTPUT_LINES == 1000

MaxRequests == 2

\* an operation is named after the request that started it (its uuid4)
Ops == 1..MaxRequests

\* The deque of output lines.  The script's lines are numbered from 1 in the
\* order it prints them, so the deque always holds a run of consecutive
\* lines: first..last (empty when last < first).
EmptyDeque == [first |-> 1, last |-> 0]

NoOperation ==
  [type |-> "", status |-> "none", exit_code |-> None, output_lines |-> EmptyDeque,
   error_message |-> None, result_summary |-> None, report_links |-> None]

NoProcess == "none"

NoRequest == [pc |-> "idle", code |-> 0]

\* the terminal event of a stream, before any of its fields is read
NoEvent == [kind |-> "", exit_code |-> None, result |-> None, links |-> None]

\* out: the output events sent so far, as runs <<from, to>> of line numbers
NoStream ==
  [pc |-> "closed", id |-> 0, from_start |-> FALSE, sent_lines |-> 0, out |-> <<>>,
   event |-> NoEvent]

NoScript == [type |-> "download", lines |-> 0, last_line |-> "plain", returncode |-> 0]

WebIdle ==
  /\ script = NoScript
  /\ current_operation = 0
  /\ operation = [o \in Ops |-> NoOperation]
  /\ process = [o \in Ops |-> NoProcess]
  /\ output_thread = [o \in Ops |-> "none"]
  /\ request = [r \in Ops |-> NoRequest]
  /\ stream = NoStream

DDIdle == [op |-> "none", homes |-> <<>>, split |-> 0, out |-> <<>>]
SIIdle == [op |-> "none", rows |-> <<>>, allowed_zips |-> <<>>, out |-> <<>>]
EFIdle == [op |-> "none", homes |-> <<>>, maxp |-> JInt(0), minbath |-> JInt(0),
           minbed |-> JInt(0), raised |-> FALSE, out |-> <<>>]

InitWorld(w) ==
  /\ stations_csv = w.csv
  /\ api_key = w.key
  /\ zip_coords = w.coords
  /\ listings_api = w.api
  /\ disk_faulty = w.faulty

InitMain ==
  /\ output_dir = FALSE
  /\ files = [z \in Zips |-> NoFile]
  /\ pc = "idle"
  /\ invocations = 0
  /\ ended = <<>>
  /\ found_dir = FALSE
  /\ queue = <<>>
  /\ wstate = [z \in Zips |-> NoTask]
  /\ queries = 0
  /\ queried = [z \in Zips |-> 0]
  /\ all_homes = <<>>
  /\ unique_homes = <<>>
  /\ filtered_homes = <<>>
  /\ stages = {}

Init ==
  /\ \E w \in Worlds : InitWorld(w)
  /\ InitMain
  /\ dd = DDIdle
  /\ ef = EFIdle
  /\ si = SIIdle
  /\ WebIdle

(***************************************************************************)
(* main(), lines 479-502: the run directory.                               *)
(***************************************************************************)
\* What every invocation starts from: the locals of main() are fresh.
Begin(nextpc, dir_after) ==
  /\ pc \in Terminal \cup {"idle"}
  /\ invocations < MaxInvocations
  /\ invocations' = invocations + 1
  /\ ended' = IF pc = "idle" THEN ended ELSE Append(ended, pc)
  /\ found_dir' = output_dir
  /\ output_dir' = dir_after
  /\ pc' = nextpc
  /\ queue' = <<>>
  /\ wstate' = [z \in Zips |-> NoTask]
  /\ queries' = 0
  /\ all_homes' = <<>>
  /\ unique_homes' = <<>>
  /\ filtered_homes' = <<>>
  /\ stages' = {}
  /\ UNCHANGED <<worldvars, files, queried, purevars, webvars>>

\* Faulty variant of Invoke: the existing directory is not looked at.
InvokeIgnoringDir == Begin("check_csv", TRUE)

\* Faulty variant of Invoke: an existing directory skips the fetch only.
InvokeSkipFetchOnly == IF output_dir THEN Begin("load", TRUE) ELSE Begin("check_csv", TRUE)

\* if os.path.exists(output_dir): sys.exit(0); os.makedirs(output_dir)
Invoke == IF output_dir THEN Begin("exit0", TRUE) ELSE Begin("check_csv", TRUE)

\* Faulty variant of CheckStationsCsv: the run goes on without the station
\* table.
CheckStationsCsvIgnored ==
  /\ pc = "check_csv"
  /\ pc' = "check_key"
  /\ UNCHANGED <<worldvars, output_dir, files, invocations, ended, found_dir, queue,
                 wstate, queries, queried, all_homes, unique_homes, filtered_homes,
                 stages, purevars, webvars>>

\* lines 506-509: the station table is required
CheckStationsCsv ==
  /\ pc = "check_csv"
  /\ pc' = IF stations_csv THEN "check_key" ELSE "exit1"
  /\ UNCHANGED <<worldvars, output_dir, files, invocations, ended, found_dir, queue,
                 wstate, queries, queried, all_homes, unique_homes, filtered_homes,
                 stages, purevars, webvars>>

(***************************************************************************)
(* main(), lines 524-577: the fetch set and the submission to the pool.    *)
(***************************************************************************)
\* lines 538-545: the postal codes that have no cache file yet
zip_codes_to_fetch == {z \in Zips : files[z].st = "none"}

\* Faulty variant of sorted_zip_codes: reverse=True is left out, fewest
\* stations first.
RECURSIVE sorted_zip_codes_ascending(_)
sorted_zip_codes_ascending(S) ==
  IF S = {} THEN <<>>
  ELSE LET first == CHOOSE z \in S : \A y \in S :
                      \/ Len(zip_coords[z]) < Len(zip_coords[y])
                      \/ Len(zip_coords[z]) = Len(zip_coords[y]) /\ z <= y
       IN <<first>> \o sorted_zip_codes_ascending(S \ {first})

\* sorted(..., key=lambda x: len(x[1]), reverse=True): most stations first;
\* the sort is stable, so ties stay in the order of zip_coords (the order of
\* the station table, here ascending postal code).
RECURSIVE sorted_zip_codes(_)
sorted_zip_codes(S) ==
  IF S = {} THEN <<>>
  ELSE LET first == CHOOSE z \in S : \A y \in S :
                      \/ Len(zip_coords[z]) > Len(zip_coords[y])
                      \/ Len(zip_coords[z]) = Len(zip_coords[y]) /\ z <= y
       IN <<first>> \o sorted_zip_codes(S \ {first})

Range(q) == {q[i] : i \in DOMAIN q}

Dispatch ==
  /\ pc = "check_key"
  /\ IF api_key /\ zip_codes_to_fetch # {}
     THEN /\ queue' = sorted_zip_codes(zip_codes_to_fetch)
          /\ wstate' = [z \in Zips |-> IF z \in zip_codes_to_fetch
                                       THEN [NoTask EXCEPT !.st = "queued"] ELSE NoTask]
          /\ pc' = "pool"
     ELSE /\ pc' = "load"
          /\ UNCHANGED <<queue, wstate>>
  /\ UNCHANGED <<worldvars, output_dir, files, invocations, ended, found_dir,
                 queries, queried, all_homes, unique_homes, filtered_homes, stages, purevars, webvars>>

Running == {z \in Zips : wstate[z].st = "running"}
\* The pool threads are interchangeable: only their number matters.
FreeThreads == max_workers - Cardinality(Running)
Min(S) == CHOOSE x \in S : \A y \in S : x <= y

\* Faulty variant of StartWorker: the pool grows with the queue.
StartWorkerUncapped(z) ==
  /\ pc = "pool"
  /\ queue # <<>>
  /\ z = Head(queue)
  /\ queue' = Tail(queue)
  /\ wstate' = [wstate EXCEPT ![z] = [@ EXCEPT !.st = "running"]]
  /\ UNCHANGED <<worldvars, output_dir, files, pc, invocations, ended, found_dir,
                 queries, queried, all_homes, unique_homes, filtered_homes, stages, purevars, webvars>>

\* An idle thread of the pool takes the next submitted postal code.
StartWorker(z) ==
  /\ pc = "pool"
  /\ queue # <<>>
  /\ z = Head(queue)
  /\ FreeThreads > 0
  /\ queue' = Tail(queue)
  /\ wstate' = [wstate EXCEPT ![z] = [@ EXCEPT !.st = "running"]]
  /\ UNCHANGED <<worldvars, output_dir, files, pc, invocations, ended, found_dir,
                 queries, queried, all_homes, unique_homes, filtered_homes, stages, purevars, webvars>>

\* Faulty variant of SendQuery: the queries of all remaining stations are
\* issued at once.
SendQueryFanOut(z) ==
  /\ pc = "pool"
  /\ wstate[z].st = "running"
  /\ wstate[z].inflight = {}
  /\ wstate[z].k < Len(zip_coords[z])
  /\ wstate' = [wstate EXCEPT ![z] =
                  [@ EXCEPT !.inflight = {zip_coords[z][j] : j \in (wstate[z].k + 1)..Len(zip_coords[z])}]]
  /\ queries' = queries + 1
  /\ queried' = [queried EXCEPT ![z] = @ + 1]
  /\ UNCHANGED <<worldvars, output_dir, files, pc, invocations, ended, found_dir,
                 queue, all_homes, unique_homes, filtered_homes, stages, purevars, webvars>>

\* fetch_and_combine_data_for_zip, the next station of the loop:
\* fetch_rentcast_data issues requests.get and the thread blocks in it
SendQuery(z) ==
  /\ pc = "pool"
  /\ wstate[z].st = "running"
  /\ wstate[z].inflight = {}
  /\ wstate[z].k < Len(zip_coords[z])
  /\ wstate' = [wstate EXCEPT ![z] = [@ EXCEPT !.inflight = {zip_coords[z][wstate[z].k + 1]}]]
  /\ queries' = queries + 1
  /\ queried' = [queried EXCEPT ![z] = @ + 1]
  /\ UNCHANGED <<worldvars, output_dir, files, pc, invocations, ended, found_dir,
                 queue, all_homes, unique_homes, filtered_homes, stages, purevars, webvars>>

\* A variant that asks a station again when its query failed.
ReceiveResponseRetries(z) ==
  /\ pc = "pool"
  /\ wstate[z].st = "running"
  /\ wstate[z].inflight # {}
  /\ listings_api[z][wstate[z].k + 1] # RespSilent
  /\ LET resp == listings_api[z][wstate[z].k + 1]
         acc == CombineStation(resp, Acc(wstate[z].all_data, wstate[z].seen_ids))
         failed == resp.kind # "json" \/ resp.bt # "list"
     IN wstate' = [wstate EXCEPT ![z] = [@ EXCEPT !.k = IF failed THEN @ ELSE @ + 1,
                                                  !.inflight = {},
                                                  !.all_data = acc.all_data,
                                                  !.seen_ids = acc.seen_ids]]
  /\ UNCHANGED <<worldvars, output_dir, files, pc, invocations, ended, found_dir,
                 queue, queries, queried, all_homes, unique_homes, filtered_homes,
                 stages, purevars, webvars>>

\* requests.get returns or raises: the rest of fetch_rentcast_data and the
\* merge of the station's listings.  The call at line 119 passes no timeout,
\* so it returns only once the source answers or the transport fails.
ReceiveResponse(z) ==
  /\ pc = "pool"
  /\ wstate[z].st = "running"
  /\ wstate[z].inflight # {}
  /\ listings_api[z][wstate[z].k + 1] # RespSilent
  /\ LET acc == CombineStation(listings_api[z][wstate[z].k + 1],
                               Acc(wstate[z].all_data, wstate[z].seen_ids))
     IN wstate' = [wstate EXCEPT ![z] = [@ EXCEPT !.k = @ + 1,
                                                  !.inflight = {},
                                                  !.all_data = acc.all_data,
                                                  !.seen_ids = acc.seen_ids]]
  /\ UNCHANGED <<worldvars, output_dir, files, pc, invocations, ended, found_dir,
                 queue, queries, queried, all_homes, unique_homes, filtered_homes,
                 stages, purevars, webvars>>

\* How save_json_data can end: it writes the file; or open() raises and no
\* file is made; or the write raises after open() made the file.
SaveOutcomes == IF disk_faulty THEN {"saved", "open_error", "write_error"} ELSE {"saved"}

\* Faulty variant of FileWritten: every task writes the first cache file.
FileWrittenFirstZip(z, outcome) ==
  CASE outcome = "saved" ->
         [files EXCEPT ![Min(Zips)] = [st |-> "ok", data |-> wstate[z].all_data]]
    [] outcome = "write_error" -> [files EXCEPT ![Min(Zips)] = [st |-> "partial", data |-> <<>>]]
    [] OTHER -> files

\* save_json_data(combined_data, zip_code, output_dir): the directory after it
FileWritten(z, outcome) ==
  CASE outcome = "saved" -> [files EXCEPT ![z] = [st |-> "ok", data |-> wstate[z].all_data]]
    [] outcome = "write_error" -> [files EXCEPT ![z] = [st |-> "partial", data |-> <<>>]]
    [] OTHER -> files

\* fetch_zip_data, after the last station: save, and the future completes
\* with a result or with the exception of save_json_data; the thread is idle
\* again and the locals of fetch_and_combine_data_for_zip are gone
SaveJson(z) ==
  /\ pc = "pool"
  /\ wstate[z].st = "running"
  /\ wstate[z].k = Len(zip_coords[z])
  /\ \E outcome \in SaveOutcomes :
       /\ files' = FileWritten(z, outcome)
       /\ wstate' = [wstate EXCEPT ![z] =
                       [@ EXCEPT !.st = IF outcome = "saved" THEN "done" ELSE "failed",
                                 !.seen_ids = {}]]
  /\ UNCHANGED <<worldvars, output_dir, pc, invocations, ended, found_dir, queue,
                 queries, queried, all_homes, unique_homes, filtered_homes, stages, purevars, webvars>>

\* Faulty variant of PoolDrained: the main thread goes on as soon as every
\* postal code has been taken up, without waiting for the workers.
PoolDrainedEarly ==
  /\ pc = "pool"
  /\ queue = <<>>
  /\ pc' = "load"
  /\ UNCHANGED <<worldvars, output_dir, files, invocations, ended, found_dir, queue,
                 wstate, queries, queried, all_homes, unique_homes, filtered_homes,
                 stages, purevars, webvars>>

\* the as_completed loop and the with block end when every future is done
PoolDrained ==
  /\ pc = "pool"
  /\ queue = <<>>
  /\ Running = {}
  /\ pc' = "load"
  /\ UNCHANGED <<worldvars, output_dir, files, invocations, ended, found_dir, queue,
                 wstate, queries, queried, all_homes, unique_homes, filtered_homes,
                 stages, purevars, webvars>>

(***************************************************************************)
(* main(), lines 589-616: the downstream stages.                           *)
(***************************************************************************)
RECURSIVE Perms(_)
Perms(S) ==
  IF S = {} THEN {<<>>}
  ELSE UNION {{<<x>> \o p : p \in Perms(S \ {x})} : x \in S}

\* load_all_json_data, given the order in which os.listdir names the cache
\* files.  A file that does not parse is skipped (except Exception).  Every
\* cache file is of a postal code of zip_coords, which allowed_zips admits.
RECURSIVE load_all_json_data(_)
load_all_json_data(order) ==
  IF order = <<>> THEN <<>>
  ELSE (IF files[Head(order)].st = "ok" THEN files[Head(order)].data ELSE <<>>)
       \o load_all_json_data(Tail(order))

CachedZips == {z \in Zips : files[z].st # "none"}

\* os.listdir returns the names in arbitrary order
Downstream ==
  /\ pc = "load"
  /\ \E order \in Perms(CachedZips) :
       LET loaded == load_all_json_data(order)
           unique == deduplicate_homes(loaded)
           res == filter_homes_by_criteria(unique, JInt(max_price), min_bathrooms,
                                           JInt(min_bedrooms))
       IN /\ all_homes' = loaded
          /\ unique_homes' = unique
          /\ IF res.out = "raise"
             THEN /\ filtered_homes' = <<>>
                  /\ stages' = {"load", "dedup"}
                  /\ pc' = "crashed"
             ELSE /\ filtered_homes' = res.homes
                  /\ stages' = {"load", "dedup", "filter", "inventory"}
                                 \cup (IF res.homes # <<>> THEN {"csv"} ELSE {})
                  /\ pc' = "done"
  /\ UNCHANGED <<worldvars, output_dir, files, invocations, ended, found_dir, queue,
                 wstate, queries, queried, purevars, webvars>>

\* The process is stopped from outside (signal, power) at any point.
Interrupt ==
  /\ pc \notin Terminal \cup {"idle"}
  /\ pc' = "killed"
  /\ UNCHANGED <<worldvars, output_dir, files, invocations, ended, found_dir, queue,
                 wstate, queries, queried, all_homes, unique_homes, filtered_homes,
                 stages, purevars, webvars>>

Next ==
  \/ Invoke
  \/ CheckStationsCsv
  \/ Dispatch
  \/ \E z \in Zips : StartWorker(z)
  \/ \E z \in Zips : SendQuery(z)
  \/ \E z \in Zips : ReceiveResponse(z)
  \/ \E z \in Zips : SaveJson(z)
  \/ PoolDrained
  \/ Downstream
  \/ Interrupt

Spec == Init /\ [][Next]_vars

\* The fetch phase of a day with more postal codes than pool threads.
InitPool ==
  /\ InitWorld(PoolWorld)
  /\ InitMain
  /\ dd = DDIdle
  /\ ef = EFIdle
  /\ si = SIIdle
  /\ WebIdle

NextPool ==
  \/ Invoke
  \/ CheckStationsCsv
  \/ Dispatch
  \/ \E z \in Zips : StartWorker(z)
  \/ \E z \in Zips : SendQuery(z)
  \/ \E z \in Zips : ReceiveResponse(z)
  \/ \E z \in Zips : SaveJson(z)
  \/ PoolDrained

SpecPool == InitPool /\ [][NextPool]_vars

(***************************************************************************)
(* The run under fair scheduling: the main thread and every worker thread  *)
(* that can take a step eventually takes it.                               *)
(***************************************************************************)
InitFair ==
  /\ \E w \in SilentWorlds : InitWorld(w)
  /\ InitMain
  /\ dd = DDIdle
  /\ ef = EFIdle
  /\ si = SIIdle
  /\ WebIdle

NextFair ==
  \/ Invoke
  \/ CheckStationsCsv
  \/ Dispatch
  \/ \E z \in Zips : StartWorker(z)
  \/ \E z \in Zips : SendQuery(z)
  \/ \E z \in Zips : ReceiveResponse(z)
  \/ \E z \in Zips : SaveJson(z)
  \/ PoolDrained
  \/ Downstream

Fairness ==
  /\ WF_vars(Invoke)
  /\ WF_vars(CheckStationsCsv)
  /\ WF_vars(Dispatch)
  /\ \A z \in {1, 2} : /\ WF_vars(StartWorker(z))
                       /\ WF_vars(SendQuery(z))
                       /\ WF_vars(ReceiveResponse(z))
                       /\ WF_vars(SaveJson(z))
  /\ WF_vars(PoolDrained)
  /\ WF_vars(Downstream)

SpecFair == InitFair /\ [][NextFair]_vars /\ Fairness

(***************************************************************************)
(* The two deduplication stages applied to any input: SpecDedup draws a    *)
(* list of listings, cut into the results of two stations, and applies     *)
(* fetch_and_combine_data_for_zip or deduplicate_homes to it.              *)
(***************************************************************************)
\* Longest input list.
MaxLen == 3

\* ids of every kind: absent, empty, zero, strings, a number and the string
\* of its digits, a string that reads like a fallback identifier, a list
DedupIds ==
  {JAbsent, JStr(""), JInt(0), JStr("a"), JStr("5"), JInt(5), JStr("x|1"), JList("[5]")}

DedupListings ==
  { Listing(id, JStr("x"), JInt(p), JStr("Condo"), JInt(2), JInt(3)) :
      id \in DedupIds, p \in {1, 2} }

BoundedSeq(S, n) == UNION {[1..m -> S] : m \in 0..n}

InitDedup ==
  /\ InitWorld(PoolWorld)
  /\ InitMain
  /\ \E homes \in BoundedSeq(DedupListings, MaxLen) : \E split \in 0..Len(homes) :
       dd = [op |-> "none", homes |-> homes, split |-> split, out |-> <<>>]
  /\ ef = EFIdle
  /\ si = SIIdle
  /\ WebIdle

\* the first station reports the listings up to the cut, the second the rest
ApplyMerge ==
  /\ dd.op = "none"
  /\ dd' = [dd EXCEPT !.op = "merge",
                      !.out = fetch_and_combine_data_for_zip(
                                <<RespList(SubSeq(dd.homes, 1, dd.split)),
                                  RespList(SubSeq(dd.homes, dd.split + 1, Len(dd.homes)))>>)]
  /\ UNCHANGED <<worldvars, mainvars, ef, si, webvars>>

ApplyDedup ==
  /\ dd.op = "none"
  /\ dd' = [dd EXCEPT !.op = "dedup", !.out = deduplicate_homes(dd.homes)]
  /\ UNCHANGED <<worldvars, mainvars, ef, si, webvars>>

\* deduplicate_homes run once more, over its own output
ReapplyDedup ==
  /\ dd.op = "dedup"
  /\ dd' = [dd EXCEPT !.op = "dedup_twice", !.out = deduplicate_homes(dd.out)]
  /\ UNCHANGED <<worldvars, mainvars, ef, si, webvars>>

NextDedup == ApplyMerge \/ ApplyDedup \/ ReapplyDedup

SpecDedup == InitDedup /\ [][NextDedup]_vars

\* ---------------------------------------------------------------------
\* The eligibility filter as a function of its input list and thresholds
\* ---------------------------------------------------------------------

FilterPrices == {JAbsent, JNull, JInt(500000), JInt(600000), JInt(600001)}
FilterTypes == {JAbsent, JNull, JStr("land"), JStr("Land"), JStr("LAND"), JStr("Condo")}
FilterBathrooms == {JAbsent, JNull, JInt(1), JHalf(1), JInt(2)}
FilterBedrooms == {JAbsent, JNull, JInt(2), JInt(3), JInt(4)}

\* every combination of the four inspected fields
FilterListings ==
  { Listing(JAbsent, JStr("x"), price, ptype, bath, bed) :
      price \in FilterPrices, ptype \in FilterTypes,
      bath \in FilterBathrooms, bed \in FilterBedrooms }

FHome(price, ptype, bath, bed) == Listing(JAbsent, JStr("x"), price, ptype, bath, bed)

\* the homes that lists are made of: one on every boundary, one that fails
\* each check, one with each optional field missing
FilterCatalog ==
  { FHome(JInt(600000), JStr("Condo"), JHalf(1), JInt(3)),
    FHome(JInt(500000), JStr("Single Family"), JInt(2), JInt(4)),
    FHome(JInt(600001), JStr("Condo"), JInt(2), JInt(4)),
    FHome(JInt(500000), JStr("Land"), JInt(2), JInt(4)),
    FHome(JInt(500000), JStr("Condo"), JInt(1), JInt(4)),
    FHome(JInt(500000), JStr("Condo"), JInt(2), JInt(2)),
    FHome(JInt(500000), JStr("Condo"), JNull, JInt(3)),
    FHome(JInt(500000), JStr("Condo"), JInt(2), JAbsent),
    FHome(JAbsent, JAbsent, JAbsent, JInt(3)),
    FHome(JNull, JStr("Condo"), JInt(2), JInt(4)) }

FilterInputs ==
  {<<h>> : h \in FilterListings} \cup BoundedSeq(FilterCatalog, MaxLen)

InitFilter ==
  /\ InitWorld(PoolWorld)
  /\ InitMain
  /\ dd = DDIdle
  /\ si = SIIdle
  /\ WebIdle
  /\ \E homes \in FilterInputs :
     \E maxp \in {JInt(500000), JInt(max_price)} :
     \E minbath \in {min_bathrooms, JInt(2)} :
     \E minbed \in {JInt(min_bedrooms), JInt(4)} :
       ef = [op |-> "none", homes |-> homes, maxp |-> maxp, minbath |-> minbath,
             minbed |-> minbed, raised |-> FALSE, out |-> <<>>]

ApplyFilter ==
  /\ ef.op = "none"
  /\ LET res == filter_homes_by_criteria(ef.homes, ef.maxp, ef.minbath, ef.minbed)
     IN ef' = [ef EXCEPT !.op = "filter", !.raised = (res.out = "raise"),
                         !.out = res.homes]
  /\ UNCHANGED <<worldvars, mainvars, dd, si, webvars>>

NextFilter == ApplyFilter

SpecFilter == InitFilter /\ [][NextFilter]_vars

\* ---------------------------------------------------------------------
\* The station index as a function of the station table and the allow-list
\* ---------------------------------------------------------------------

\* str.strip() on the cell texts of the model
Strip(text) ==
  CASE text = " 11501 " -> "11501"
    [] text = " " -> ""
    [] OTHER -> text

\* float(text) returns (it raises ValueError otherwise)
FloatParses(text) == text \in {"40.7", "-73.6"}

Row(zip, name, lat, lon) ==
  [zip |-> zip, name |-> name, latitude |-> lat, longitude |-> lon]

\* The loop of get_zip_code_coordinates over the rows of the table;
\* zip_coords is the dict built so far, allowed_zips is None or a set
RECURSIVE IndexLoop(_, _, _)
IndexLoop(rows, allowed_zips, coords) ==
  IF rows = <<>> THEN coords
  ELSE LET row == Head(rows)
           zip_code == Strip(row.zip)
           station_name == Strip(row.name)
           latitude == Strip(row.latitude)
           longitude == Strip(row.longitude)
           valid == /\ zip_code # "" /\ zip_code \notin {"N/A", "ERROR"}
                    /\ station_name # "" /\ latitude # "" /\ longitude # ""
           allowed == allowed_zips = None \/ zip_code \in allowed_zips[1]
           \* zip_coords[zip_code] = [] comes before float() is tried
           keyed == IF zip_code \in DOMAIN coords THEN coords
                    ELSE coords @@ (zip_code :> <<>>)
           appended == [keyed EXCEPT ![zip_code] = Append(@, station_name)]
       IN IF valid /\ allowed
          THEN IF FloatParses(latitude) /\ FloatParses(longitude)
               THEN IndexLoop(Tail(rows), allowed_zips, appended)
               ELSE IndexLoop(Tail(rows), allowed_zips, keyed)
          ELSE IndexLoop(Tail(rows), allowed_zips, coords)

get_zip_code_coordinates(rows, allowed_zips) == IndexLoop(rows, allowed_zips, <<>>)

\* rows of every kind: valid ones, two that share a postal code, unparsable
\* coordinates, sentinel and empty postal codes, empty cells, padded cells
TableRows ==
  { Row("11501", "A", "40.7", "-73.6"),
    Row(" 11501 ", "B", "40.7", "-73.6"),
    Row("11502", "C", "40.7", "-73.6"),
    Row("11502", "D", "abc", "-73.6"),
    Row("11503", "E", "40.7", "abc"),
    Row("N/A", "F", "40.7", "-73.6"),
    Row("ERROR", "G", "40.7", "-73.6"),
    Row(" ", "H", "40.7", "-73.6"),
    Row("11501", "I", "", "-73.6"),
    Row("11503", "", "40.7", "-73.6") }

InitIndex ==
  /\ InitWorld(PoolWorld)
  /\ InitMain
  /\ dd = DDIdle
  /\ ef = EFIdle
  /\ WebIdle
  /\ \E rows \in BoundedSeq(TableRows, MaxLen) :
     \E allowed_zips \in {None, Some({"11501", "11503"})} :
       si = [op |-> "none", rows |-> rows, allowed_zips |-> allowed_zips, out |-> <<>>]

ApplyIndex ==
  /\ si.op = "none"
  /\ si' = [si EXCEPT !.op = "index",
                      !.out = get_zip_code_coordinates(si.rows, si.allowed_zips)]
  /\ UNCHANGED <<worldvars, mainvars, dd, ef, webvars>>

NextIndex == ApplyIndex

SpecIndex == InitIndex /\ [][NextIndex]_vars

(***************************************************************************)
(* The web control surface.  A request handler runs on a thread of its own *)
(* (the Flask development server is threaded), the output of a script is   *)
(* captured by a daemon thread per operation, and a stream client is       *)
(* served by the event_stream generator.                                   *)
(***************************************************************************)
DequeLen(dq) == dq.last - dq.first + 1

\* deque(maxlen=MAX_OUTPUT_LINES).append(line)
DequeAppend(dq, line) ==
  IF DequeLen(dq) = MAX_OUTPUT_LINES
  THEN [first |-> dq.first + 1, last |-> line]
  ELSE [first |-> dq.first, last |-> line]

\* the text of line n of the script: only the last line may be special
LineText(n) == IF n = script.lines THEN script.last_line ELSE "plain"

\* some line of the deque has the text
DequeHas(dq, text) ==
  DequeLen(dq) > 0 /\ dq.first <= script.lines /\ script.lines <= dq.last
    /\ script.last_line = text

_extract_result_summary(op) ==
  IF op.type = "download" THEN "Data download completed successfully"
  ELSE IF DequeHas(op.output_lines, "index saved") THEN "Reports generated successfully"
  ELSE "Report generation completed successfully"

_extract_report_links(op) ==
  IF DequeHas(op.output_lines, "index saved") THEN Some("index.html") ELSE None

_extract_error_message(op) ==
  IF DequeHas(op.output_lines, "error") THEN "Error: line"
  ELSE "Script failed with exit code"

\* ---- POST /api/execute ----

\* execute_operation up to the check for a running operation: a request
\* whose body is not valid is answered 400, a request that finds an
\* operation recorded is answered 409
CheckRunning(r) ==
  /\ request[r].pc = "idle"
  /\ \E valid \in BOOLEAN :
       request' = [request EXCEPT ![r] =
         IF ~valid THEN [pc |-> "done", code |-> 400]
         ELSE IF current_operation # 0 THEN [pc |-> "done", code |-> 409]
         ELSE [pc |-> "checked", code |-> 0]]
  /\ UNCHANGED <<worldvars, mainvars, purevars, script, current_operation, operation,
                 process, output_thread, stream>>

\* the rest of execute_operation: validate_env_vars (400), then
\* execute_script: Popen (500 when it fails), the capture thread is started
\* and the operation is recorded in execution_state
ExecuteScript(r) ==
  /\ request[r].pc = "checked"
  /\ \E outcome \in {"started", "no_env_var", "popen_failed"} :
       IF outcome = "started"
       THEN /\ request' = [request EXCEPT ![r] = [pc |-> "done", code |-> 200]]
            /\ process' = [process EXCEPT ![r] = "running"]
            /\ output_thread' = [output_thread EXCEPT ![r] = "reading"]
            /\ operation' = [operation EXCEPT ![r] =
                               [NoOperation EXCEPT !.type = script.type,
                                                   !.status = "running"]]
            /\ current_operation' = r
       ELSE /\ request' = [request EXCEPT ![r] =
                             [pc |-> "done",
                              code |-> IF outcome = "no_env_var" THEN 400 ELSE 500]]
            /\ UNCHANGED <<process, output_thread, operation, current_operation>>
  /\ UNCHANGED <<worldvars, mainvars, purevars, script, stream>>

\* ---- the script and _capture_output ----

\* the script prints its next line and the capture thread appends it
CaptureLine(o) ==
  /\ output_thread[o] = "reading"
  /\ operation[o].output_lines.last < script.lines
  /\ operation' = [operation EXCEPT ![o].output_lines =
                     DequeAppend(@, @.last + 1)]
  /\ UNCHANGED <<worldvars, mainvars, purevars, script, current_operation, process,
                 output_thread, request, stream>>

\* the script has printed everything and exits
ProcessExits(o) ==
  /\ process[o] = "running"
  /\ operation[o].output_lines.last = script.lines
  /\ process' = [process EXCEPT ![o] = "exited"]
  /\ UNCHANGED <<worldvars, mainvars, purevars, script, current_operation, operation,
                 output_thread, request, stream>>

\* readline returns '' and process.wait() returns: end_time and exit_code
CaptureExitCode(o) ==
  /\ output_thread[o] = "reading"
  /\ process[o] = "exited"
  /\ operation' = [operation EXCEPT ![o].exit_code = Some(script.returncode)]
  /\ output_thread' = [output_thread EXCEPT ![o] = "set_status"]
  /\ UNCHANGED <<worldvars, mainvars, purevars, script, current_operation, process,
                 request, stream>>

\* operation['status'] = 'completed' or 'failed'
CaptureStatus(o) ==
  /\ output_thread[o] = "set_status"
  /\ operation' = [operation EXCEPT ![o].status =
                     IF script.returncode = 0 THEN "completed" ELSE "failed"]
  /\ output_thread' = [output_thread EXCEPT ![o] = "set_result"]
  /\ UNCHANGED <<worldvars, mainvars, purevars, script, current_operation, process,
                 request, stream>>

\* result_summary of a completed operation, error_message of a failed one
CaptureResult(o) ==
  /\ output_thread[o] = "set_result"
  /\ IF operation[o].status = "completed"
     THEN /\ operation' = [operation EXCEPT ![o].result_summary =
                             Some(_extract_result_summary(operation[o]))]
          /\ output_thread' = [output_thread EXCEPT ![o] = "set_links"]
     ELSE /\ operation' = [operation EXCEPT ![o].error_message =
                             Some(_extract_error_message(operation[o]))]
          /\ output_thread' = [output_thread EXCEPT ![o] = "ended"]
  /\ UNCHANGED <<worldvars, mainvars, purevars, script, current_operation, process,
                 request, stream>>

\* report_links of a generate operation (download_stats of a download one)
CaptureLinks(o) ==
  /\ output_thread[o] = "set_links"
  /\ operation' = [operation EXCEPT ![o].report_links =
                     IF operation[o].type = "generate"
                     THEN _extract_report_links(operation[o]) ELSE @]
  /\ output_thread' = [output_thread EXCEPT ![o] = "ended"]
  /\ UNCHANGED <<worldvars, mainvars, purevars, script, current_operation, process,
                 request, stream>>

SmallScripts ==
  { [type |-> t, lines |-> n, last_line |-> l, returncode |-> rc] :
      t \in {"download", "generate"}, n \in 0..2,
      l \in {"plain", "index saved", "error"}, rc \in {0, 1} }

InitWeb ==
  /\ InitWorld(PoolWorld)
  /\ InitMain
  /\ dd = DDIdle
  /\ ef = EFIdle
  /\ si = SIIdle
  /\ script \in SmallScripts
  /\ current_operation = 0
  /\ operation = [o \in Ops |-> NoOperation]
  /\ process = [o \in Ops |-> NoProcess]
  /\ output_thread = [o \in Ops |-> "none"]
  /\ request = [r \in Ops |-> NoRequest]
  /\ stream = NoStream

NextWeb ==
  \/ \E r \in Ops : CheckRunning(r)
  \/ \E r \in Ops : ExecuteScript(r)
  \/ \E o \in Ops : CaptureLine(o)
  \/ \E o \in Ops : ProcessExits(o)
  \/ \E o \in Ops : CaptureExitCode(o)
  \/ \E o \in Ops : CaptureStatus(o)
  \/ \E o \in Ops : CaptureResult(o)
  \/ \E o \in Ops : CaptureLinks(o)

SpecWeb == InitWeb /\ [][NextWeb]_vars

\* ---- GET /api/stream/<operation_id>: event_stream ----

\* output events for the lines from..to are sent after those of out
Yield(out, from, to) ==
  IF from > to THEN out
  ELSE IF out # <<>> /\ out[Len(out)][2] + 1 = from
       THEN [out EXCEPT ![Len(out)] = <<out[Len(out)][1], to>>]
       ELSE Append(out, <<from, to>>)

\* current_lines = list(operation['output_lines']), then
\* 'for line in current_lines[sent_lines:]' when it is longer than sent_lines
YieldNewLines(st, dq) ==
  IF DequeLen(dq) > st.sent_lines
  THEN [st EXCEPT !.out = Yield(@, dq.first + st.sent_lines, dq.last),
                  !.sent_lines = DequeLen(dq)]
  ELSE st

\* the client opens the stream of the recorded operation: the lines captured
\* so far are sent.  With no operation recorded the stream is an error event.
OpenStream ==
  /\ stream.pc = "closed"
  /\ IF current_operation = 0
     THEN stream' = [stream EXCEPT !.pc = "ended", !.event = [NoEvent EXCEPT !.kind = "error"]]
     ELSE LET dq == operation[current_operation].output_lines
          IN stream' = [YieldNewLines(stream, dq) EXCEPT
                          !.pc = "loop", !.id = current_operation,
                          !.from_start = (dq.last = 0)]
  /\ UNCHANGED <<worldvars, mainvars, purevars, script, current_operation, operation,
                 process, output_thread, request>>

\* while operation['status'] == 'running'
LoopTest ==
  /\ stream.pc = "loop"
  /\ stream' = [stream EXCEPT !.pc = IF operation[stream.id].status = "running"
                                     THEN "body" ELSE "final"]
  /\ UNCHANGED <<worldvars, mainvars, purevars, script, current_operation, operation,
                 process, output_thread, request>>

\* the body of the loop: the new lines are sent
LoopBody ==
  /\ stream.pc = "body"
  /\ stream' = [YieldNewLines(stream, operation[stream.id].output_lines) EXCEPT
                  !.pc = "loop"]
  /\ UNCHANGED <<worldvars, mainvars, purevars, script, current_operation, operation,
                 process, output_thread, request>>

\* after the loop: any final lines are sent
FinalLines ==
  /\ stream.pc = "final"
  /\ stream' = [YieldNewLines(stream, operation[stream.id].output_lines) EXCEPT
                  !.pc = "event"]
  /\ UNCHANGED <<worldvars, mainvars, purevars, script, current_operation, operation,
                 process, output_thread, request>>

\* if operation['status'] == 'completed': which terminal event is built
ChooseEvent ==
  /\ stream.pc = "event"
  /\ stream' = [stream EXCEPT !.pc = "exit_code",
                              !.event.kind = IF operation[stream.id].status = "completed"
                                             THEN "completed" ELSE "failed"]
  /\ UNCHANGED <<worldvars, mainvars, purevars, script, current_operation, operation,
                 process, output_thread, request>>

\* 'exit_code': operation['exit_code']
ReadExitCode ==
  /\ stream.pc = "exit_code"
  /\ stream' = [stream EXCEPT !.pc = "result",
                              !.event.exit_code = operation[stream.id].exit_code]
  /\ UNCHANGED <<worldvars, mainvars, purevars, script, current_operation, operation,
                 process, output_thread, request>>

\* 'summary': operation['result_summary'], or 'error':
\* operation['error_message'], after which the failed event is sent
ReadResult ==
  /\ stream.pc = "result"
  /\ IF stream.event.kind = "completed"
     THEN stream' = [stream EXCEPT !.pc = "links",
                                  !.event.result = operation[stream.id].result_summary]
     ELSE stream' = [stream EXCEPT !.pc = "ended",
                                  !.event.result = operation[stream.id].error_message]
  /\ UNCHANGED <<worldvars, mainvars, purevars, script, current_operation, operation,
                 process, output_thread, request>>

\* 'links': operation['report_links'], after which the completed event is sent
ReadLinks ==
  /\ stream.pc = "links"
  /\ stream' = [stream EXCEPT !.pc = "ended",
                              !.event.links = operation[stream.id].report_links]
  /\ UNCHANGED <<worldvars, mainvars, purevars, script, current_operation, operation,
                 process, output_thread, request>>

\* a script that prints one line more than the deque holds
BigScript ==
  [type |-> "generate", lines |-> MAX_OUTPUT_LINES + 1, last_line |-> "index saved",
   returncode |-> 0]

\* one request and one client of its stream
InitStream ==
  /\ InitWorld(PoolWorld)
  /\ InitMain
  /\ dd = DDIdle
  /\ ef = EFIdle
  /\ si = SIIdle
  /\ script \in SmallScripts \cup {BigScript}
  /\ current_operation = 0
  /\ operation = [o \in Ops |-> NoOperation]
  /\ process = [o \in Ops |-> NoProcess]
  /\ output_thread = [o \in Ops |-> "none"]
  /\ request = [r \in Ops |-> NoRequest]
  /\ stream = NoStream

NextStream ==
  \/ CheckRunning(1)
  \/ ExecuteScript(1)
  \/ CaptureLine(1)
  \/ ProcessExits(1)
  \/ CaptureExitCode(1)
  \/ CaptureStatus(1)
  \/ CaptureResult(1)
  \/ CaptureLinks(1)
  \/ OpenStream
  \/ LoopTest
  \/ LoopBody
  \/ FinalLines
  \/ ChooseEvent
  \/ ReadExitCode
  \/ ReadResult
  \/ ReadLinks

SpecStream == InitStream /\ [][NextStream]_vars

(***************************************************************************)
(* Properties.                                                             *)
(***************************************************************************)
\* The identity key of a record: its id if present and non-empty, else
\* formattedAddress + "|" + price.  Non-empty is Python's truth value: a
\* missing, null, "" or 0 id is no id.
IdentityKey(home) ==
  IF home.id.t \notin {"absent", "null"} /\ home.id \notin {JStr(""), JInt(0)}
  THEN home.id
  ELSE JStr(PyStr(IF home.formattedAddress.t = "absent" THEN JStr("") ELSE home.formattedAddress)
            \o "|" \o PyStr(IF home.price.t = "absent" THEN JInt(0) ELSE home.price))

NoEqualKeys(homes) ==
  \A i \in DOMAIN homes : \A j \in DOMAIN homes :
    i # j => IdentityKey(homes[i]) # IdentityKey(homes[j])

\* C1: after the per-postal-code merge, and after global deduplication, of
\* any input, no two records of the output have equal identity keys.
C1_IdentityKeysUnique == dd.op \in {"merge", "dedup"} => NoEqualKeys(dd.out)

\* C1 case: a merge that dropped a duplicate and kept several records.
C1_Witness ==
  /\ dd.op = "merge"
  /\ Len(dd.out) >= 2
  /\ Len(dd.out) < Len(dd.homes)
  /\ \E i \in DOMAIN dd.out : ~Truthy(dd.out[i].id)

\* C2: an invocation that found the run directory existing issues no
\* outbound query, whatever cache files the directory holds.
C2_SkipIssuesNoQuery == found_dir => queries = 0

\* C2 case: the directory exists with some cache files present and some
\* missing, and the invocation has ended.
C2_Witness ==
  /\ found_dir
  /\ pc \in Terminal
  /\ \E z \in Zips : files[z].st = "none"
  /\ \E z \in Zips : files[z].st = "ok"

\* C3 as stated: an invocation that found the run directory existing does
\* no fetching and still runs the downstream stages.
C3_DownstreamStillRuns ==
  (found_dir /\ pc \in Terminal \ {"killed"}) =>
    (queries = 0 /\ {"load", "dedup"} \subseteq stages)

\* C3 as amended: an invocation that found the run directory existing does
\* no fetching and exits at once: it runs no downstream stage.
C3_SkipExitsAtOnce ==
  found_dir => /\ pc = "exit0"
               /\ stages = {}
               /\ all_homes = <<>> /\ unique_homes = <<>> /\ filtered_homes = <<>>
               /\ \A z \in Zips : wstate[z] = NoTask

\* C3 case: the earlier invocation completed, every cache file is there,
\* and this invocation has exited.
C3_Witness ==
  /\ found_dir
  /\ pc = "exit0"
  /\ ended # <<>> /\ ended[Len(ended)] = "done"
  /\ \A z \in Zips : files[z].st = "ok"

\* C4: at most 6 postal codes are being fetched at any time.
C4_WorkerBound ==
  /\ Cardinality(Running) <= max_workers
  /\ FreeThreads >= 0

\* C4 case: six postal codes are being fetched while another one waits.
C4_Witness == Cardinality(Running) = max_workers /\ queue # <<>>

RECURSIVE Ascending(_)
Ascending(S) == IF S = {} THEN <<>> ELSE <<Min(S)>> \o Ascending(S \ {Min(S)})

\* C5: for given per-station results the final deduplicated set (the records
\* retained) is the same in every behaviour.  One behaviour enumerates the
\* cache files in ascending order, so the claim says every run that wrote
\* every cache file ends with the records of that one.
C5_OrderIndependent ==
  (pc \in {"done", "crashed"} /\ \A z \in Zips : files[z].st = "ok") =>
    Range(unique_homes) = Range(deduplicate_homes(load_all_json_data(Ascending(Zips))))

Dispatched == {z \in Zips : wstate[z].st # "none"}

\* C6: once the pool has drained, every dispatched postal code has either
\* completed and written its cache file, or failed and has no cache file.
C6_FailedZipHasNoFile ==
  pc \in {"load", "done", "crashed"} =>
    \A z \in Dispatched :
      \/ wstate[z].st = "done" /\ files[z].st = "ok"
      \/ wstate[z].st = "failed" /\ files[z].st = "none"

\* a transport failure: timeout, non-success status, or a malformed response
\* (a body that is not JSON, or not a list)
TransportFailure(resp) == resp.kind # "json" \/ resp.bt # "list"

\* the responses with every failure replaced by an empty list
RECURSIVE FailuresAsEmpty(_)
FailuresAsEmpty(resps) ==
  IF resps = <<>> THEN <<>>
  ELSE <<IF TransportFailure(Head(resps)) THEN RespList(<<>>) ELSE Head(resps)>>
       \o FailuresAsEmpty(Tail(resps))

\* C7: for every failed query issued so far, fetch_rentcast_data returned an
\* empty list and did not raise, and the batch holds what the other stations
\* returned.
C7_FailureReturnsEmptyList ==
  \A z \in Zips :
    /\ \A j \in 1..wstate[z].k :
         TransportFailure(listings_api[z][j]) =>
           fetch_rentcast_data(listings_api[z][j]) = Returned("list", <<>>)
    /\ wstate[z].st = "done" =>
         wstate[z].all_data =
           fetch_and_combine_data_for_zip(FailuresAsEmpty(listings_api[z]))

\* C8: when an invocation finds the run directory, every postal code has a
\* cache file.
C8_DirMeansComplete == found_dir => \A z \in Zips : files[z].st # "none"

\* C9: after an interrupted invocation that left some cache files, the next
\* invocation ends with a cache file for every postal code.
C9_ResumeCompletes ==
  ( /\ ended # <<>> /\ ended[Len(ended)] = "killed"
    /\ \E z \in Zips : files[z].st # "none"
    /\ pc \in {"exit0", "done", "crashed"} )
  => \A z \in Zips : files[z].st # "none"

\* C10: once a cache file exists, no step rewrites or deletes it and no
\* query is issued for its postal code again.
C10_CacheFileWrittenOnce ==
  [][\A z \in Zips : files[z].st # "none" =>
        (files'[z] = files[z] /\ queried'[z] = queried[z])]_vars

\* C10 case: a cache file written by the first invocation is still there
\* when the second invocation has ended.
C10_Witness ==
  /\ invocations = 2
  /\ pc \in Terminal
  /\ \E z \in Zips : files[z].st = "ok" /\ queried[z] > 0 /\ files[z].data # <<>>

C12_DedupIdempotent ==
  dd.op = "dedup_twice" =>
    /\ dd.out = deduplicate_homes(dd.homes)
    /\ Len(deduplicate_homes(dd.homes)) - Len(dd.out) = 0

\* C12 case: the first run removed a duplicate and kept two records, and the
\* second run has been made.
C12_Witness ==
  /\ dd.op = "dedup_twice"
  /\ Len(dd.out) >= 2
  /\ Len(dd.out) < Len(dd.homes)

\* The conditions of the filter as the design states them, for one home.
PricePasses(home, maxp) ==
  home.price.t = "absent" \/ (IsNum(home.price) /\ Twice(home.price) <= Twice(maxp))

TypePasses(home) ==
  home.propertyType.t = "absent"
    \/ (home.propertyType.t = "str" /\ Lower(home.propertyType.s) # "land")

Missing(v) == v.t \in {"absent", "null"}

BathroomsPass(home, minbath) ==
  Missing(home.bathrooms)
    \/ (IsNum(home.bathrooms) /\ Twice(home.bathrooms) >= Twice(minbath))

BedroomsPass(home, minbed) ==
  ~Missing(home.bedrooms) /\ IsNum(home.bedrooms)
    /\ Twice(home.bedrooms) >= Twice(minbed)

\* C13: a home whose bedroom count is null or absent is never in the output,
\* whatever its other fields; a home whose bathroom count is null or absent
\* is in the output whenever its price, property type and bedrooms pass.
C13_BedroomsRequiredBathroomsOptional ==
  ef.op = "filter" =>
    \A i \in DOMAIN ef.homes :
      LET home == ef.homes[i]
      IN /\ Missing(home.bedrooms) => home \notin Range(ef.out)
         /\ (~ef.raised /\ Missing(home.bathrooms) /\ PricePasses(home, ef.maxp)
               /\ TypePasses(home) /\ BedroomsPass(home, ef.minbed))
              => home \in Range(ef.out)

\* C13 case: of two homes that pass every other check, the one without a
\* bathroom count was kept and the one without a bedroom count was dropped.
C13_Witness ==
  /\ ef.op = "filter"
  /\ \E i \in DOMAIN ef.homes : \E j \in DOMAIN ef.homes :
       /\ Missing(ef.homes[i].bathrooms) /\ ef.homes[i] \in Range(ef.out)
       /\ Missing(ef.homes[j].bedrooms) /\ ef.homes[j] \notin Range(ef.out)
       /\ PricePasses(ef.homes[j], ef.maxp) /\ TypePasses(ef.homes[j])
       /\ BathroomsPass(ef.homes[j], ef.minbath)

\* A home as the data model describes it: a numeric price or none, a string
\* property type or none, numeric or null room counts.
WellTyped(home) ==
  /\ home.price.t = "absent" \/ IsNum(home.price)
  /\ home.propertyType.t \in {"absent", "str"}
  /\ Missing(home.bathrooms) \/ IsNum(home.bathrooms)
  /\ Missing(home.bedrooms) \/ IsNum(home.bedrooms)

Eligible(home, maxp, minbath, minbed) ==
  /\ PricePasses(home, maxp)
  /\ TypePasses(home)
  /\ BathroomsPass(home, minbath)
  /\ BedroomsPass(home, minbed)

\* C14: for a list of homes of the data model and any thresholds, the filter
\* returns exactly the homes that satisfy all four conditions (price, 0 when
\* missing, at most the maximum; property type not "land" in any letter
\* case; bathrooms null or at least the minimum; bedrooms known and at least
\* the minimum), in their input order; a home equal to a threshold is kept.
C14_FilterIsTheEligibleSubsequence ==
  (ef.op = "filter" /\ \A i \in DOMAIN ef.homes : WellTyped(ef.homes[i])) =>
    /\ ~ef.raised
    /\ ef.out = SelectSeq(ef.homes,
                          LAMBDA home : Eligible(home, ef.maxp, ef.minbath, ef.minbed))

\* C14 case: the filter kept two homes, one of them on all three thresholds,
\* and dropped another.
C14_Witness ==
  /\ ef.op = "filter"
  /\ \A i \in DOMAIN ef.homes : WellTyped(ef.homes[i])
  /\ Len(ef.out) >= 2
  /\ Len(ef.out) < Len(ef.homes)
  /\ \E i \in DOMAIN ef.out :
       /\ ef.out[i].price = ef.maxp
       /\ ef.out[i].bathrooms = ef.minbath
       /\ ef.out[i].bedrooms = ef.minbed

\* The lists that hold the home next to at most one other home.
ListsAround(home) ==
  {<<home>>} \cup {<<other, home>> : other \in FilterCatalog}
             \cup {<<home, other>> : other \in FilterCatalog}

\* C15: whether a home is in the output depends on its own fields and the
\* thresholds only: across all input lists that hold the home and for which
\* the filter returns an output, the home is in every output or in none.
C15_MembershipIsPerRecord ==
  (ef.op = "filter" /\ ~ef.raised) =>
    \A i \in DOMAIN ef.homes : \A other \in ListsAround(ef.homes[i]) :
      LET res == filter_homes_by_criteria(other, ef.maxp, ef.minbath, ef.minbed)
      IN res.out = "return" =>
           (ef.homes[i] \in Range(res.homes) <=> ef.homes[i] \in Range(ef.out))

\* C15 case: the filter returned for a list of three different homes, kept
\* the last one and dropped one before it.
C15_Witness ==
  /\ ef.op = "filter"
  /\ ~ef.raised
  /\ Len(ef.homes) = 3
  /\ Cardinality(Range(ef.homes)) = 3
  /\ ef.homes[3] \in Range(ef.out)
  /\ ef.homes[1] \notin Range(ef.out)

\* A home without an id the stages can use: absent, null, empty or zero.
LacksId(home) == ~Truthy(Get(home, "id"))

SameAddressPrice(g, h) ==
  g.formattedAddress = h.formattedAddress /\ g.price = h.price

\* Every id of the list is hashable and none spells the address|price text
\* of a home of the list.
PlainIds(homes) ==
  \A i \in DOMAIN homes :
    ~LacksId(homes[i]) =>
      /\ Hashable(homes[i].id)
      /\ \A j \in DOMAIN homes : PyStr(homes[i].id) # FallbackId(homes[j])

\* C16: among the homes without an id, the per-postal-code merge and the
\* global deduplication alike keep one home of each address and price: homes
\* with the same address and price are collapsed to one, homes with the same
\* address and different prices are all kept.
C16_FallbackIsAddressAndPrice ==
  (dd.op \in {"merge", "dedup"} /\ PlainIds(dd.homes)) =>
    LET given == SelectSeq(dd.homes, LacksId)
        kept == SelectSeq(dd.out, LacksId)
    IN /\ \A i \in DOMAIN kept : \A j \in DOMAIN kept :
            i # j => ~SameAddressPrice(kept[i], kept[j])
       /\ \A i \in DOMAIN given : \E j \in DOMAIN kept :
            SameAddressPrice(given[i], kept[j])

\* C16 case: the merge was given three homes without an id, two of them of
\* the same address and price and one of another price, and kept two.
C16_Witness ==
  /\ dd.op = "merge"
  /\ Len(dd.homes) = 3
  /\ \A i \in DOMAIN dd.homes : dd.homes[i].id = JAbsent
  /\ Cardinality(Range(dd.homes)) = 2
  /\ Len(dd.out) = 2
  /\ dd.out[1].price # dd.out[2].price

\* C17: the per-postal-code merge and the global deduplication apply the
\* same rule: given the same homes, with ids of any JSON type or none, they
\* keep exactly the same homes, so deduplicating a merged batch removes
\* nothing from it.
C17_MergeAndDedupAgree ==
  dd.op = "merge" =>
    /\ dd.out = deduplicate_homes(dd.homes)
    /\ deduplicate_homes(dd.out) = dd.out

\* The queries sent and not yet answered, as postal code and station.
Outstanding ==
  {zs \in Zips \X UNION {Range(zip_coords[z]) : z \in Zips} :
     zs[2] \in wstate[zs[1]].inflight}

\* C18: a postal code has at most one query outstanding, held by its running
\* task; that query is for the station next in index order after the
\* stations already answered; and over all postal codes at most 6 queries
\* are outstanding, however many stations the postal codes have.
C18_QueriesSequentialPerZip ==
  /\ \A z \in Zips :
       /\ Cardinality(wstate[z].inflight) <= 1
       /\ wstate[z].inflight # {} =>
            /\ wstate[z].st = "running"
            /\ wstate[z].k < Len(zip_coords[z])
            /\ wstate[z].inflight = {zip_coords[z][wstate[z].k + 1]}
            /\ queried[z] = wstate[z].k + 1
       /\ \A s \in wstate[z].inflight : \E j \in DOMAIN zip_coords[z] : zip_coords[z][j] = s
  /\ Cardinality(Outstanding) <= max_workers

\* C18 case: six queries are outstanding while a postal code waits, one of
\* them for the second station of a postal code whose first was answered.
C18_Witness ==
  /\ Cardinality(Outstanding) = max_workers
  /\ queue # <<>>
  /\ \E z \in Zips : /\ Len(zip_coords[z]) = 2
                      /\ wstate[z].k = 1
                      /\ wstate[z].inflight = {zip_coords[z][2]}

\* C19: every step of the fetch phase belongs to the task of one postal
\* code: it changes the locals of that task and the cache file of that
\* postal code and nothing of any other; a cache file is written only by the
\* running task of its own postal code, as that task ends; and a postal code
\* is taken up by a worker once, from the queue, and never again in the run.
C19_WorkersWriteOwnFile ==
  [][ \A z \in Zips :
        /\ files'[z] # files[z] =>
             /\ wstate[z].st = "running"
             /\ wstate'[z].st \in {"done", "failed"}
        /\ (pc = "pool" /\ (files'[z] # files[z] \/ wstate'[z] # wstate[z])) =>
             \A y \in Zips \ {z} : files'[y] = files[y] /\ wstate'[y] = wstate[y]
        /\ (invocations' = invocations /\ wstate'[z].st = "running") =>
             wstate[z].st \in {"queued", "running"}
        /\ (invocations' = invocations /\ wstate[z].st \in {"done", "failed"}) =>
             wstate'[z].st = wstate[z].st ]_vars

\* C19 case: two postal codes have their cache files, each with the listings
\* of its own stations, while other workers are still fetching.
C19_Witness ==
  /\ pc = "pool"
  /\ Running # {}
  /\ \E y \in Zips : \E z \in Zips :
       /\ files[y].st = "ok" /\ Len(files[y].data) = 3
       /\ files[z].st = "ok" /\ Len(files[z].data) = 2
       /\ wstate[y].st = "done" /\ wstate[z].st = "done"

\* C20: the cache is read for the global deduplication only when no
\* dispatched postal code is waiting, being fetched or being written: once
\* the main thread is past the pool, every dispatched task has ended, in
\* success or in failure, and no query is outstanding.
C20_LoadAfterAllWorkers ==
  (pc \in {"load", "done", "crashed"} \/ stages # {}) =>
    /\ queue = <<>>
    /\ Running = {}
    /\ \A z \in Zips : /\ wstate[z].st \in {"none", "done", "failed"}
                        /\ wstate[z].inflight = {}

\* C20 case: the downstream stages ran after two workers had ended, one with
\* its cache file written and one in failure.
C20_Witness ==
  /\ pc = "done"
  /\ "dedup" \in stages
  /\ all_homes # <<>>
  /\ \E y \in Zips : \E z \in Zips : wstate[y].st = "done" /\ wstate[z].st = "failed"

StationCount(z) == Len(zip_coords[z])

Started == {z \in Zips : wstate[z].st \in {"running", "done", "failed"}}

\* C21: the postal codes wait in the pool's queue in non-increasing order of
\* station count and are taken from its head, so no postal code that a
\* worker has started has fewer stations than one that still waits.
C21_MostStationsFirst ==
  /\ \A i \in DOMAIN queue : \A j \in DOMAIN queue :
       i < j => StationCount(queue[i]) >= StationCount(queue[j])
  /\ \A z \in Started : \A y \in Range(queue) : StationCount(z) >= StationCount(y)

\* C21 case: the postal code with two stations, third in the station table,
\* is the only one started while the first of the table still waits.
C21_Witness ==
  /\ pc = "pool"
  /\ \E z \in Zips : /\ Started = {z}
                      /\ StationCount(z) = 2
                      /\ \E y \in Range(queue) : y < z /\ StationCount(y) = 1

RunningProcesses == {o \in Ops : process[o] = "running"}

\* C22: at most one script subprocess runs at a time, whatever the
\* interleaving of the request handlers; of two requests that both find no
\* operation recorded, at most one starts a subprocess.
C22_OneSubprocessAtATime ==
  /\ Cardinality(RunningProcesses) <= 1
  /\ Cardinality({r \in Ops : request[r].code = 200}) <= 1

\* A row that the design counts: parsable coordinates, a postal code that is
\* neither empty nor a sentinel, and in the allow-list when there is one.
RowCounts(row, allowed_zips) ==
  /\ FloatParses(Strip(row.latitude)) /\ FloatParses(Strip(row.longitude))
  /\ Strip(row.zip) \notin {"", "N/A", "ERROR"}
  /\ allowed_zips = None \/ Strip(row.zip) \in allowed_zips[1]

RECURSIVE StationsOf(_, _, _)
StationsOf(rows, allowed_zips, zip_code) ==
  IF rows = <<>> THEN <<>>
  ELSE (IF RowCounts(Head(rows), allowed_zips) /\ Strip(Head(rows).zip) = zip_code
        THEN <<Strip(Head(rows).name)>> ELSE <<>>)
       \o StationsOf(Tail(rows), allowed_zips, zip_code)

\* C23: the keys of the station index are exactly the postal codes with at
\* least one row that counts, and each key maps to the stations of all its
\* rows that count, in table order; no key has an empty station list.
C23_IndexIsTheValidRows ==
  si.op = "index" =>
    /\ DOMAIN si.out =
         {Strip(si.rows[i].zip) : i \in {j \in DOMAIN si.rows :
                                           RowCounts(si.rows[j], si.allowed_zips)}}
    /\ \A zip_code \in DOMAIN si.out :
         /\ si.out[zip_code] # <<>>
         /\ si.out[zip_code] = StationsOf(si.rows, si.allowed_zips, zip_code)

\* C24: within a run every station of a dispatched postal code is queried
\* exactly once, whether its query succeeds or fails: the queries of a postal
\* code go to its stations one after the other in table order, none is sent
\* twice, and a task that ended has asked each of its stations.
C24_EachStationQueriedOnce ==
  /\ [](\A z \in DOMAIN wstate :
         /\ queried[z] <= Len(zip_coords[z])
         /\ wstate[z].st \in {"done", "failed"} => queried[z] = Len(zip_coords[z]))
  /\ [][\A z \in DOMAIN wstate :
          queried'[z] # queried[z] =>
            /\ queried'[z] = queried[z] + 1
            /\ queried'[z] <= Len(zip_coords[z])
            /\ wstate'[z].inflight = {zip_coords[z][queried'[z]]}]_vars

\* a postal code with two stations ended its task after the query of its first
\* station failed: both stations were asked once
C24_Witness ==
  \E z \in DOMAIN wstate :
    /\ wstate[z].st \in {"done", "failed"}
    /\ Len(zip_coords[z]) = 2
    /\ TransportFailure(listings_api[z][1])
    /\ queried[z] = 2

\* the records of a list whose identity key no earlier record of the list has
RECURSIVE FirstOccurrences(_, _)
FirstOccurrences(homes, keys) ==
  IF homes = <<>> THEN <<>>
  ELSE IF IdentityKey(Head(homes)) \in keys
       THEN FirstOccurrences(Tail(homes), keys)
       ELSE <<Head(homes)>> \o FirstOccurrences(Tail(homes), keys \cup {IdentityKey(Head(homes))})

\* C25: the per-postal-code merge (stations in index order) and the global
\* deduplication both return exactly the first record of each identity key,
\* in input order, and the number of duplicates the global deduplication
\* reports is the input length minus the output length.
C25_FirstOccurrencesInOrder ==
  /\ dd.op \in {"merge", "dedup"} => dd.out = FirstOccurrences(dd.homes, {})
  /\ dd.op = "dedup" => duplicate_count(dd.homes) = Len(dd.homes) - Len(dd.out)

\* C26: every query a worker sent eventually returns to it, with a response
\* or with a failure, and so, under fair scheduling, the run leaves the worker
\* pool and reaches the global deduplication, even when the source never
\* answers some query.
C26_QueriesReturnAndRunProceeds ==
  /\ \A z \in {1, 2} : (wstate[z].inflight # {}) ~> (wstate[z].inflight = {})
  /\ <>("dedup" \in stages)

\* C27: the eligibility filter returns without raising for every list whose
\* records have price, propertyType, bathrooms and bedrooms each present,
\* absent or null, and a record with a null field does not keep the other
\* records from being filtered: every record that passes the checks is in the
\* result.
C27_FilterToleratesNullFields ==
  ef.op = "filter" =>
    /\ ~ef.raised
    /\ \A i \in DOMAIN ef.homes :
         Eligibility(ef.homes[i], ef.maxp, ef.minbath, ef.minbed) = "keep"
           => \E j \in DOMAIN ef.out : ef.out[j] = ef.homes[i]

\* C28: a request to start an operation is answered 409 only while the
\* recorded operation has status 'running'; once that operation is completed
\* or failed, a later valid request is not turned away as a conflict.
C28_ConflictOnlyWhileRunning ==
  [][\A r \in Ops :
       (request[r].code # 409 /\ request'[r].code = 409) =>
         /\ current_operation # 0
         /\ operation[current_operation].status = "running"]_vars

\* the stream sent its terminal event
StreamEnded == stream.pc = "ended" /\ stream.event.kind \in {"completed", "failed"}

\* C29: a client that opened the stream when the operation started has been
\* sent, when the stream ends, every output line of the script exactly once
\* and in order, and then one terminal event (completed or failed), however
\* many lines the script printed, more than MAX_OUTPUT_LINES included.
C29_StreamSendsEveryLineOnce ==
  (stream.pc = "ended" /\ stream.from_start) =>
    /\ stream.event.kind \in {"completed", "failed"}
    /\ stream.out = IF script.lines = 0 THEN <<>> ELSE << <<1, script.lines>> >>

\* C30: the terminal event of a stream carries the final values of the
\* operation: the return code of the script and, when completed, the summary
\* extracted from the output (and the report links of a generate operation),
\* when failed the error message extracted from the output; never the
\* initial null.
C30_TerminalEventHasFinalValues ==
  StreamEnded =>
    LET op == operation[stream.id]
    IN /\ stream.event.exit_code = Some(script.returncode)
       /\ stream.event.kind = "completed" =>
            /\ stream.event.result = Some(_extract_result_summary(op))
            /\ op.type = "generate" => stream.event.links = _extract_report_links(op)
       /\ stream.event.kind = "failed" =>
            stream.event.result = Some(_extract_error_message(op))
====
